---- MODULE Spec2Model ----
(***************************************************************************)
(* A model of easy_ml_config.configuration.BaseConfig: the per-class       *)
(* subconfigs registry filled by __init_subclass__, and the operations     *)
(* from_dict, to_dict, inherit and from_yaml that read it.                 *)
(*                                                                         *)
(* Python values are tagged records (field k).  A dict is the ordered      *)
(* sequence of its items; an instance carries its class, an identity (id)  *)
(* and its __dict__ as an ordered sequence of items.                       *)
(***************************************************************************)
EXTENDS Integers, Sequences, FiniteSets, TLC

VARIABLES
    classes,     \* class name -> its class body (base, annotations, own subconfigs)
    subconfigs,  \* class name -> the class attribute cls.subconfigs (field -> class)
    files,       \* path -> the document yaml.safe_load returns for it
    last,        \* the last call made: operation, arguments and outcome
    prev         \* the call made before it, when last used its result

vars == <<classes, subconfigs, files, last, prev>>

\* ------------------------------------------------------------ bounds ----

\* Scalars are the integers 1..MaxInt.
MaxInt == 1
\* Generated instances and mappings nest at most MaxDepth levels deep.
MaxDepth == 2
\* At most MaxChain calls in a row feed on each other's results.
MaxChain == 2

\* ------------------------------------------------------- small helpers ----

EmptyMap == [x \in {} |-> ""]

Min(S) == CHOOSE x \in S : \A y \in S : x <= y
Max(S) == CHOOSE x \in S : \A y \in S : x >= y

Range(s) == {s[i] : i \in 1..Len(s)}

\* ---------------------------------------------------- type annotations ----

\* An annotation as written in a class body.  "fwd" is a string annotation
\* naming a class, "fwdbad" a string annotation whose evaluation raises
\* TypeError (such as 'Optional[int, str]'), "generic" a parameterised
\* non-union type such as list[N].
ScalarT == [t |-> "scalar", c |-> "", args |-> <<>>]
NoneT == [t |-> "nonetype", c |-> "", args |-> <<>>]
ClassVarT == [t |-> "classvar", c |-> "", args |-> <<>>]
FwdBadT == [t |-> "fwdbad", c |-> "", args |-> <<>>]
ClsT(c) == [t |-> "cls", c |-> c, args |-> <<>>]
FwdT(c) == [t |-> "fwd", c |-> c, args |-> <<>>]
UnionT(args) == [t |-> "union", c |-> "", args |-> args]
GenericT(args) == [t |-> "generic", c |-> "", args |-> args]

NoClass == ""
BaseConfig == "BaseConfig"

\* BaseConfig's own annotation, line 92: subconfigs: ClassVar[dict] = {}
BaseAnnotations == <<[name |-> "subconfigs", type |-> ClassVarT,
                      hasdef |-> TRUE, def |-> [k |-> "dict", items |-> <<>>]]>>

\* A get_baseconfig_type returning the last schema alternative of a union.
GetBaseconfigTypeLastAlt(ft) ==
    IF ft.t = "cls" THEN ft.c
    ELSE IF ft.t = "union"
         THEN LET hit == {i \in 1..Len(ft.args) : ft.args[i].t = "cls"}
              IN  IF hit = {} THEN NoClass ELSE ft.args[Max(hit)].c
         ELSE NoClass

\* get_baseconfig_type on a resolved annotation.  typing flattens nested
\* unions, so the alternatives of a union are never unions themselves and
\* the recursive call on an alternative takes the first branch or none.
GetBaseconfigType(ft) ==
    IF ft.t = "cls" THEN ft.c
    ELSE IF ft.t = "union"
         THEN LET hit == {i \in 1..Len(ft.args) : ft.args[i].t = "cls"}
              IN  IF hit = {} THEN NoClass ELSE ft.args[Min(hit)].c
         ELSE NoClass

\* ----------------------------------------------------------- classes ----

\* cls.__mro__ without object, most derived first (single inheritance).
RECURSIVE Mro(_, _)
Mro(cl, c) ==
    IF c = BaseConfig THEN <<BaseConfig>> ELSE <<c>> \o Mro(cl, cl[c].base)

AnnotationsOf(cl, c) == IF c = BaseConfig THEN BaseAnnotations ELSE cl[c].ann

\* The annotations get_type_hints visits, in its order: reversed(__mro__),
\* each class's __annotations__ in definition order.
RECURSIVE AllAnnotations(_, _)
AllAnnotations(cl, c) ==
    IF c = BaseConfig THEN BaseAnnotations
    ELSE AllAnnotations(cl, cl[c].base) \o cl[c].ann

\* Evaluation of one annotation against the names bound so far (ns).
ResolveLeaf(ft, ns) ==
    IF ft.t = "fwd"
    THEN IF ft.c \in ns THEN [ok |-> TRUE, exc |-> "", type |-> ClsT(ft.c)]
         ELSE [ok |-> FALSE, exc |-> "NameError", type |-> ft]
    ELSE IF ft.t = "fwdbad"
         THEN [ok |-> FALSE, exc |-> "TypeError", type |-> ft]
         ELSE [ok |-> TRUE, exc |-> "", type |-> ft]

Resolve(ft, ns) ==
    IF ft.t \in {"union", "generic"}
    THEN LET rs == [i \in 1..Len(ft.args) |-> ResolveLeaf(ft.args[i], ns)]
             bad == {i \in 1..Len(ft.args) : ~rs[i].ok}
         IN  IF bad # {}
             THEN [ok |-> FALSE, exc |-> rs[Min(bad)].exc, type |-> ft]
             ELSE [ok |-> TRUE, exc |-> "",
                   type |-> [ft EXCEPT !.args = [i \in 1..Len(ft.args) |-> rs[i].type]]]
    ELSE ResolveLeaf(ft, ns)

\* typing.get_type_hints(cls): every annotation of every class of the MRO is
\* evaluated; the first failure is raised; a name annotated twice keeps the
\* most derived annotation.
GetTypeHints(cl, c, ns) ==
    LET s == AllAnnotations(cl, c)
        rs == [i \in 1..Len(s) |-> Resolve(s[i].type, ns)]
        bad == {i \in 1..Len(s) : ~rs[i].ok}
        names == {s[i].name : i \in 1..Len(s)}
    IN  IF bad # {}
        THEN [ok |-> FALSE, exc |-> rs[Min(bad)].exc, hints |-> EmptyMap]
        ELSE [ok |-> TRUE, exc |-> "",
              hints |-> [n \in names |->
                            rs[Max({i \in 1..Len(s) : s[i].name = n})].type]]

\* BaseConfig.__init_subclass__ for the new class c of table cl, with the
\* names ns bound when the class statement runs.  Returns the subconfigs
\* attribute it leaves on the class, or the exception it lets through.
InitSubclass(cl, c, ns) ==
    LET start == IF cl[c].hand.has THEN cl[c].hand.map ELSE EmptyMap
        h == GetTypeHints(cl, c, ns)
        auto == {n \in DOMAIN h.hints :
                    /\ h.hints[n].t # "classvar"
                    /\ GetBaseconfigType(h.hints[n]) # NoClass}
    IN  IF ~h.ok
        THEN IF h.exc \in {"TypeError", "ValueError"}
             THEN [ok |-> TRUE, exc |-> "", map |-> start]
             ELSE [ok |-> FALSE, exc |-> h.exc, map |-> EmptyMap]
        ELSE [ok |-> TRUE, exc |-> "",
              map |-> [n \in (DOMAIN start) \cup auto |->
                          IF n \in auto THEN GetBaseconfigType(h.hints[n])
                          ELSE start[n]]]

\* ------------------------------------------------------------ values ----

None == [k |-> "none"]
IntV(n) == [k |-> "int", n |-> n]
StrV(str) == [k |-> "str", s |-> str]
ListV(elems) == [k |-> "list", elems |-> elems]
\* A dict is the sequence of its items in insertion order.
DictV(items) == [k |-> "dict", items |-> items]
\* An instance: its class, its identity and its __dict__ in insertion order.
InstV(c, id, attrs) == [k |-> "inst", cls |-> c, id |-> id, attrs |-> attrs]

Item(key, val) == [key |-> key, val |-> val]
Keys(items) == {items[i].key : i \in 1..Len(items)}
Get(items, key) == items[CHOOSE i \in 1..Len(items) : items[i].key = key].val

\* d[key] = val on a dict: an existing key keeps its place.
Put(items, key, val) ==
    IF key \in Keys(items)
    THEN [i \in 1..Len(items) |->
             IF items[i].key = key THEN Item(key, val) ELSE items[i]]
    ELSE Append(items, Item(key, val))

\* dict.update(kw): kw's items are put in kw's order.
RECURSIVE Update(_, _)
Update(items, kw) ==
    IF kw = <<>> THEN items
    ELSE Update(Put(items, Head(kw).key, Head(kw).val), Tail(kw))

\* The largest identity inside a value (0 when it holds no instance).
RECURSIVE MaxIdOf(_)
MaxIdOf(v) ==
    IF v.k = "inst"
    THEN Max({v.id} \cup {MaxIdOf(v.attrs[i].val) : i \in 1..Len(v.attrs)})
    ELSE IF v.k = "dict"
         THEN Max({0} \cup {MaxIdOf(v.items[i].val) : i \in 1..Len(v.items)})
         ELSE 0

\* The outcome of a call: a returned value (nid: the next unused identity),
\* or a raised exception with the parts of its message.
Returned(v, nid) == [ok |-> TRUE, val |-> v, exc |-> "", msg |-> <<>>, nid |-> nid]
Raised(e, m) == [ok |-> FALSE, val |-> None, exc |-> e, msg |-> m, nid |-> 0]

\* --------------------------------------------------------- dataclasses ----

\* dataclasses.fields(cls): the annotated names of the MRO, base first; a
\* name annotated again keeps its place; ClassVar names are no fields.
MergeField(fs, a) ==
    LET hit == {i \in 1..Len(fs) : fs[i].name = a.name}
        f == [name |-> a.name, hasdef |-> a.hasdef, def |-> a.def]
    IN  IF a.type.t = "classvar" THEN fs
        ELSE IF hit = {} THEN Append(fs, f)
        ELSE [fs EXCEPT ![Min(hit)] = f]

RECURSIVE MergeFields(_, _)
MergeFields(fs, ann) ==
    IF ann = <<>> THEN fs
    ELSE MergeFields(MergeField(fs, Head(ann)), Tail(ann))

RECURSIVE FieldsOf(_, _)
FieldsOf(cl, c) ==
    IF c = BaseConfig THEN <<>>
    ELSE MergeFields(FieldsOf(cl, cl[c].base), cl[c].ann)

FieldNamesOf(c) == {f.name : f \in Range(FieldsOf(classes, c))}
FieldInfo(c, name) ==
    CHOOSE f \in Range(FieldsOf(classes, c)) : f.name = name

\* The generated __init__ of dataclass c called with keyword arguments kw:
\* every field is set in field order, from kw or from its default.
DataclassInit(c, kw, nid) ==
    LET fs == FieldsOf(classes, c)
        unexpected == Keys(kw) \ {fs[i].name : i \in 1..Len(fs)}
        missing == {i \in 1..Len(fs) : fs[i].name \notin Keys(kw) /\ ~fs[i].hasdef}
    IN  IF unexpected # {}
        THEN Raised("TypeError", <<"unexpected keyword argument">>)
        ELSE IF missing # {}
        THEN Raised("TypeError",
                    <<"missing required argument", fs[Min(missing)].name>>)
        ELSE Returned(InstV(c, nid,
                 [i \in 1..Len(fs) |->
                     Item(fs[i].name,
                          IF fs[i].name \in Keys(kw) THEN Get(kw, fs[i].name)
                          ELSE fs[i].def)]),
                 nid + 1)

\* ---------------------------------------------------------- operations ----

RECURSIVE ToDict(_)

\* A to_dict that leaves out the attributes holding None.
ToDictOmitNull(x) ==
    LET kept == SelectSeq(x.attrs, LAMBDA it : it.val.k # "none")
    IN  DictV([i \in 1..Len(kept) |->
                  Item(kept[i].key,
                       IF /\ kept[i].key \in DOMAIN subconfigs[x.cls]
                          /\ kept[i].val.k = "inst"
                       THEN ToDict(kept[i].val)
                       ELSE kept[i].val)])

\* self.to_dict()
ToDict(x) ==
    DictV([i \in 1..Len(x.attrs) |->
              Item(x.attrs[i].key,
                   IF /\ x.attrs[i].key \in DOMAIN subconfigs[x.cls]
                      /\ x.attrs[i].val.k = "inst"
                   THEN ToDict(x.attrs[i].val)
                   ELSE x.attrs[i].val)])

RECURSIVE FromDict(_, _, _)
RECURSIVE FromDictLoop(_, _, _, _, _)

\* A valid_keys that lets one undeclared key through.
ValidKeysWithExtra(c) == FieldNamesOf(c) \cup {"bogus"}

\* valid_keys of from_dict: the names of the dataclass fields.
ValidKeys(c) == FieldNamesOf(c)

\* A test that takes every nested field for optional.
HasDefaultAlways(c, key) == TRUE

\* from_dict's test that a nested field given None is optional: the field
\* has a default or a default factory.
HasDefault(c, key) == FieldInfo(c, key).hasdef

\* The error from_dict raises for None given to a required nested field.
RequiredNullError(key) ==
    Raised("ValueError", <<"Required subconfig", key, "cannot be None">>)

\* An invalid-type error raised with the text of the null error.
InvalidTypeErrorAsNull(key) == RequiredNullError(key)

\* The error from_dict raises for a nested value of a wrong type.
InvalidTypeError(key) == Raised("ValueError", <<"Invalid type for", key>>)

\* An isinstance that accepts the instances of every schema.
IsInstanceOfAny(v, c) == v.k = "inst"

\* isinstance(v, c)
IsInstance(v, c) == v.k = "inst" /\ c \in Range(Mro(classes, v.cls))

\* A branch that builds a copy of the instance from its flattened form.
RebuildInstance(c, key, v, nid) ==
    FromDict(subconfigs[c][key], ToDict(v).items, nid)

\* from_dict's branch for a value that already is an instance of the
\* registered class: the value itself is kept.
KeepInstance(c, key, v, nid) == Returned(v, nid)

\* An init_subconfig that hands the mapping back as it is.
InitSubconfigUnbuilt(c, name, d, nid) == Returned(d, nid)

\* cls.init_subconfig(subconfig_name, subconfig_dict)
InitSubconfig(c, name, d, nid) ==
    IF name \notin DOMAIN subconfigs[c] THEN Returned(d, nid)
    ELSE FromDict(subconfigs[c][name], d.items, nid)

\* The loop of from_dict over kwargs.items(), from item i on, with the
\* filtered_kwargs built so far.
FromDictLoop(c, kwargs, i, filtered, nid) ==
    IF i > Len(kwargs) THEN Returned(DictV(filtered), nid)
    ELSE
    LET key == kwargs[i].key
        v == kwargs[i].val
    IN  IF key \notin ValidKeys(c)
        THEN FromDictLoop(c, kwargs, i + 1, filtered, nid)
        ELSE IF key \in DOMAIN subconfigs[c]
        THEN IF v.k = "none"
             THEN IF HasDefault(c, key)
                  THEN FromDictLoop(c, kwargs, i + 1, Put(filtered, key, None), nid)
                  ELSE RequiredNullError(key)
             ELSE IF v.k = "dict"
             THEN LET r == InitSubconfig(c, key, v, nid)
                  IN  IF r.ok
                      THEN FromDictLoop(c, kwargs, i + 1,
                                        Put(filtered, key, r.val), r.nid)
                      ELSE r
             ELSE IF IsInstance(v, subconfigs[c][key])
             THEN LET r == KeepInstance(c, key, v, nid)
                  IN  IF r.ok
                      THEN FromDictLoop(c, kwargs, i + 1,
                                        Put(filtered, key, r.val), r.nid)
                      ELSE r
             ELSE InvalidTypeError(key)
        ELSE FromDictLoop(c, kwargs, i + 1, Put(filtered, key, v), nid)

\* cls.from_dict(kwargs)
FromDict(c, kwargs, nid) ==
    LET l == FromDictLoop(c, kwargs, 1, <<>>, nid)
    IN  IF l.ok THEN DataclassInit(c, l.val.items, l.nid) ELSE l

\* An inherit where the parent's value wins over the override.
InheritParentWins(c, parent, kwargs, nid) ==
    FromDict(c, Update(kwargs, ToDict(parent).items), nid)

\* cls.inherit(parent, **kwargs)
Inherit(c, parent, kwargs, nid) ==
    FromDict(c, Update(ToDict(parent).items, kwargs), nid)

\* cls.from_yaml(path)
FromYaml(c, path, nid) ==
    IF path \notin DOMAIN files THEN Raised("FileNotFoundError", <<path>>)
    ELSE LET r == FromDict(c, files[path].items, nid)
         IN  IF r.ok
             THEN Returned([r.val EXCEPT
                               !.attrs = Put(@, "load_path", StrV(path))], r.nid)
             ELSE r

\* a == b on values: dataclass equality compares the class and the fields,
\* dict equality the keys and their values whatever the order.
RECURSIVE Eq(_, _)
Eq(a, b) ==
    IF a.k # b.k THEN FALSE
    ELSE IF a.k = "inst"
    THEN /\ a.cls = b.cls
         /\ \A f \in FieldNamesOf(a.cls) : Eq(Get(a.attrs, f), Get(b.attrs, f))
    ELSE IF a.k = "dict"
    THEN /\ Keys(a.items) = Keys(b.items)
         /\ \A key \in Keys(a.items) : Eq(Get(a.items, key), Get(b.items, key))
    ELSE a = b

\* A hook that writes its registrations into the dict the new class
\* inherits from its base, which the base then shares.
SetSubconfigsShared(subs, name, base, map) ==
    [c \in (DOMAIN subs) \cup {name} |->
        IF c \in {name, base} THEN map @@ subs[base] ELSE subs[c]]

\* The subconfigs attributes once the hook has run for the new class: the
\* hook binds a dict of the class's own ({} or a copy of the one its body
\* declared) and writes its registrations there.
SetSubconfigs(subs, name, base, map) == subs @@ (name :> map)

\* A class statement `class name(base): ...` with body `body`: the hook runs
\* while the class is created; if it raises, the class is never bound.
DeclareClass(name, body) ==
    LET cl2 == classes @@ (name :> body)
        r == InitSubclass(cl2, name, DOMAIN classes)
    IN  /\ name \notin DOMAIN classes
        /\ name # BaseConfig
        /\ body.base \in (DOMAIN classes) \cup {BaseConfig}
        /\ IF r.ok
           THEN /\ classes' = cl2
                /\ subconfigs' = SetSubconfigs(subconfigs, name, body.base, r.map)
                /\ last' = [op |-> "declare", cls |-> name, arg |-> body,
                            kw |-> None, res |-> Returned(None, 0), n |-> 0]
           ELSE /\ UNCHANGED <<classes, subconfigs>>
                /\ last' = [op |-> "declare", cls |-> name, arg |-> body,
                            kw |-> None, res |-> Raised(r.exc, <<>>), n |-> 0]
        /\ UNCHANGED <<files, prev>>

\* ------------------------------------------- generated class statements ----

\* Generated class statements are named in this order.
ClassNames == <<"N", "C", "D">>
FieldNames == {"f", "g"}

\* The annotations the body of class `name` may use, given the classes S
\* bound so far: plain and optional scalars, ClassVar, a string that raises
\* TypeError, S's classes directly, optional, as the later alternatives of a
\* union, inside list[...], named by a string, and the class's own name in a
\* string (not bound yet while its class statement runs).
AnnotationChoices(S, name) ==
    {ScalarT, ClassVarT, FwdBadT, UnionT(<<ScalarT, NoneT>>)}
        \cup {ClsT(c) : c \in S}
        \cup {UnionT(<<ClsT(c), NoneT>>) : c \in S}
        \cup {UnionT(<<ScalarT, ClsT(p[1]), ClsT(p[2])>>) :
                  p \in {q \in S \X S : q[1] # q[2]}}
        \cup {GenericT(<<ClsT(c)>>) : c \in S}
        \cup {FwdT(c) : c \in S}
        \cup {UnionT(<<FwdT(name), NoneT>>)}

OwnAnnotations(S, name) ==
    UNION {
        {s \in [1..n -> [name : FieldNames, type : AnnotationChoices(S, name),
                         hasdef : {FALSE}, def : {[k |-> "none"]}]] :
            \A i, j \in 1..n : i # j => s[i].name # s[j].name}
        : n \in 0..1}

\* A body either has no subconfigs of its own or declares one entry by hand.
OwnSubconfigs(S) ==
    {[has |-> FALSE, map |-> EmptyMap]}
        \cup {[has |-> TRUE, map |-> ("g" :> c)] : c \in S}

Bodies(S, name) ==
    [base : S \cup {BaseConfig}, ann : OwnAnnotations(S, name),
     hand : OwnSubconfigs(S)]

NoCall == [op |-> "none", cls |-> "", arg |-> None, kw |-> None,
           res |-> Returned(None, 0), n |-> 0]

\* The state when BaseConfig itself has been defined (line 92): no subclass
\* yet, BaseConfig.subconfigs = {}.
InitReg ==
    /\ classes = EmptyMap
    /\ subconfigs = (BaseConfig :> EmptyMap)
    /\ files = EmptyMap
    /\ last = NoCall
    /\ prev = NoCall

\* The next class statement of the module.  A class statement that raised
\* ends the module's execution: what could follow it is what could follow
\* the state before it, the registry being unchanged.
Declare ==
    /\ last.res.ok
    /\ Cardinality(DOMAIN classes) < Len(ClassNames)
    /\ LET name == ClassNames[Cardinality(DOMAIN classes) + 1]
       IN  \E body \in Bodies(DOMAIN classes, name) :
               DeclareClass(name, body)

NextReg == Declare

SpecReg == InitReg /\ [][NextReg]_vars

\* ------------------------------------------------ the client program ----

\* The class statements of a program using the library, in order: the two
\* example schemas of configuration.py, then a subclass of the first and a
\* schema with an optional nested field (default None), as in the tests.
Program == <<
    [name |-> "ExampleDataConfig",
     body |-> [base |-> BaseConfig,
               ann |-> <<[name |-> "root", type |-> ScalarT,
                          hasdef |-> FALSE, def |-> None]>>,
               hand |-> [has |-> FALSE, map |-> EmptyMap]]],
    [name |-> "ExampleExperimentConfig",
     body |-> [base |-> BaseConfig,
               ann |-> <<[name |-> "exp_id", type |-> ScalarT,
                          hasdef |-> FALSE, def |-> None],
                         [name |-> "data", type |-> ClsT("ExampleDataConfig"),
                          hasdef |-> FALSE, def |-> None]>>,
               hand |-> [has |-> TRUE,
                         map |-> ("data" :> "ExampleDataConfig")]]],
    [name |-> "TaggedDataConfig",
     body |-> [base |-> "ExampleDataConfig",
               ann |-> <<[name |-> "tag", type |-> ScalarT,
                          hasdef |-> TRUE, def |-> IntV(1)]>>,
               hand |-> [has |-> FALSE, map |-> EmptyMap]]],
    [name |-> "OptionalConfig",
     body |-> [base |-> BaseConfig,
               ann |-> <<[name |-> "required", type |-> ScalarT,
                          hasdef |-> FALSE, def |-> None],
                         [name |-> "optional_nested",
                          type |-> UnionT(<<FwdT("ExampleExperimentConfig"), NoneT>>),
                          hasdef |-> TRUE, def |-> None]>>,
               hand |-> [has |-> FALSE, map |-> EmptyMap]]] >>

\* The documents yaml.safe_load finds on disk.
YamlFiles ==
    ("data.yaml" :> DictV(<<Item("root", IntV(1))>>))
    @@ ("exp.yaml" :> DictV(<<Item("exp_id", IntV(1)),
                              Item("data", DictV(<<Item("root", IntV(1))>>))>>))

\* ------------------------------------------------------ bounded inputs ----

\* Plain values: the scalars and one collection.
Scalars == {IntV(i) : i \in 1..MaxInt} \cup {ListV(<<1>>)}
\* A mapping given for a field that is no nested schema.
OddDict == DictV(<<Item("root", IntV(1))>>)
ExtraKey == "bogus"

Reverse(s) == [i \in 1..Len(s) |-> s[Len(s) + 1 - i]]
FieldOrder(c) == [i \in 1..Len(FieldsOf(classes, c)) |-> FieldsOf(classes, c)[i].name]
Subclasses(c) == {x \in DOMAIN classes : c \in Range(Mro(classes, x))}

RECURSIVE InstancePool(_, _)
RECURSIVE MappingsFor(_, _)
RECURSIVE Combos(_, _, _, _)

\* The instances of c and of its subclasses.
InstancesOf(c, d) == UNION {InstancePool(x, d) : x \in Subclasses(c)}

\* The values tried for `key` of schema c: as a constructor argument
\* ("args"), in a raw mapping ("map"), as an override of inherit ("over").
Candidates(c, key, d, mode) ==
    IF key \notin FieldNamesOf(c) THEN {IntV(1)}
    ELSE IF key \in DOMAIN subconfigs[c]
    THEN LET n == subconfigs[c][key]
             insts == IF d > 0 THEN InstancesOf(n, d - 1) ELSE {}
             others == {x \in UNION {InstancePool(y, 0) : y \in DOMAIN classes} :
                           x.cls \notin Subclasses(n)}
         IN  IF mode = "args" THEN {None} \cup insts
             ELSE IF mode = "map"
             THEN {None, IntV(1)} \cup insts \cup others
                    \cup (IF d > 0 THEN {DictV(m) : m \in MappingsFor(n, d - 1)}
                          ELSE {})
             ELSE {None, IntV(1)} \cup insts \cup {ToDict(x) : x \in insts}
    ELSE IF mode = "args" THEN Scalars
         ELSE Scalars \cup {None, OddDict}

\* Every item sequence over a subsequence of keys ks.
Combos(c, ks, d, mode) ==
    IF ks = <<>> THEN {<<>>}
    ELSE LET rest == Combos(c, Tail(ks), d, mode)
         IN  rest \cup {<<Item(Head(ks), v)>> \o r :
                           v \in Candidates(c, Head(ks), d, mode), r \in rest}

\* Instances of exactly class c built by its constructor.
BuiltPool(c, d) ==
    {r.val : r \in {q \in {DataclassInit(c, a, 1 + MaxIdOf(DictV(a))) :
                              a \in Combos(c, FieldOrder(c), d, "args")} : q.ok}}

\* Instances of exactly class c loaded by from_yaml.
LoadedPool(c) ==
    {r.val : r \in {q \in {FromYaml(c, path, 1) : path \in DOMAIN files} : q.ok}}

InstancePool(c, d) == BuiltPool(c, d) \cup LoadedPool(c)

\* Raw mappings given to c.from_dict: declared keys and an extra one, in
\* field order or reversed.
MappingsFor(c, d) ==
    Combos(c, FieldOrder(c) \o <<ExtraKey>>, d, "map")
        \cup Combos(c, Reverse(FieldOrder(c) \o <<ExtraKey>>), d, "map")

\* Keyword arguments given to c.inherit: at most two.
Overrides(c, d) ==
    {o \in Combos(c, FieldOrder(c) \o <<ExtraKey>>, d, "over") : Len(o) <= 2}

\* ------------------------------------------------------------- actions ----

Call(op, c, arg, kw, res, n) ==
    [op |-> op, cls |-> c, arg |-> arg, kw |-> kw, res |-> res, n |-> n]

\* No call is being followed up: the program is between statements.
Idle == last.op \in {"none", "declare"}

\* The result of the last call can feed the next one.
CanChain == ~Idle /\ last.res.ok /\ last.n < MaxChain

\* The next class statement of the program.
DeclareNext ==
    /\ Idle
    /\ Cardinality(DOMAIN classes) < Len(Program)
    /\ LET p == Program[Cardinality(DOMAIN classes) + 1]
       IN  DeclareClass(p.name, p.body)

\* c(**kw)
ConstructCall ==
    /\ Idle
    /\ \E c \in DOMAIN classes :
         \E a \in Combos(c, FieldOrder(c), MaxDepth, "args") :
            last' = Call("construct", c, DictV(a), None,
                         DataclassInit(c, a, 1 + MaxIdOf(DictV(a))), 1)
    /\ prev' = NoCall
    /\ UNCHANGED <<classes, subconfigs, files>>

\* c.from_dict(m), m a raw mapping.
FromDictCall ==
    /\ Idle
    /\ \E c \in DOMAIN classes :
         \E m \in MappingsFor(c, MaxDepth) :
            last' = Call("from_dict", c, DictV(m), None,
                         FromDict(c, m, 1 + MaxIdOf(DictV(m))), 1)
    /\ prev' = NoCall
    /\ UNCHANGED <<classes, subconfigs, files>>

\* type(x).from_dict(d), d the mapping x.to_dict() just returned.
FromDictChained ==
    /\ CanChain
    /\ last.op = "to_dict"
    /\ last' = Call("from_dict", last.arg.cls, last.res.val, None,
                    FromDict(last.arg.cls, last.res.val.items,
                             1 + MaxIdOf(last.arg)),
                    last.n + 1)
    /\ prev' = last
    /\ UNCHANGED <<classes, subconfigs, files>>

\* x.to_dict()
ToDictCall ==
    /\ Idle
    /\ \E c \in DOMAIN classes :
         \E x \in BuiltPool(c, MaxDepth) :
            last' = Call("to_dict", c, x, None, Returned(ToDict(x), 0), 1)
    /\ prev' = NoCall
    /\ UNCHANGED <<classes, subconfigs, files>>

\* x.to_dict(), x the instance the last call returned.
ToDictChained ==
    /\ CanChain
    /\ last.res.val.k = "inst"
    /\ last' = Call("to_dict", last.res.val.cls, last.res.val, None,
                    Returned(ToDict(last.res.val), 0), last.n + 1)
    /\ prev' = last
    /\ UNCHANGED <<classes, subconfigs, files>>

\* c.inherit(p, **o)
InheritCall ==
    /\ Idle
    /\ \E c \in DOMAIN classes :
         \E p \in InstancePool(c, MaxDepth) :
            \E o \in Overrides(c, MaxDepth) :
               last' = Call("inherit", c, p, DictV(o),
                            Inherit(c, p, o, 1 + Max({MaxIdOf(p), MaxIdOf(DictV(o))})),
                            1)
    /\ prev' = NoCall
    /\ UNCHANGED <<classes, subconfigs, files>>

\* c.from_yaml(path)
FromYamlCall ==
    /\ Idle
    /\ \E c \in DOMAIN classes :
         \E path \in (DOMAIN files) \cup {"missing.yaml"} :
            last' = Call("from_yaml", c, StrV(path), None,
                         FromYaml(c, path, 1), 1)
    /\ prev' = NoCall
    /\ UNCHANGED <<classes, subconfigs, files>>

\* BaseConfig is defined and the documents are on disk.
Init ==
    /\ classes = EmptyMap
    /\ subconfigs = (BaseConfig :> EmptyMap)
    /\ files = YamlFiles
    /\ last = NoCall
    /\ prev = NoCall

Next ==
    \/ DeclareNext
    \/ ConstructCall
    \/ FromDictCall
    \/ FromDictChained
    \/ ToDictCall
    \/ ToDictChained
    \/ InheritCall
    \/ FromYamlCall

Spec == Init /\ [][Next]_vars

\* ------------------------------------------------ operation claims ----

\* The vocabulary of the claims about the operations, read off the class
\* statements and the values alone.
Registered(c) == FieldNamesOf(c) \cap DOMAIN subconfigs[c]
Required(c) == {f \in FieldNamesOf(c) : ~FieldInfo(c, f).hasdef}

\* v is an instance of c or of a subclass of c / of exactly c.
IsA(v, c) == v.k = "inst" /\ v.cls \in Subclasses(c)
IsExactly(v, c) == v.k = "inst" /\ v.cls = c

\* A scalar, a collection, or a mapping holding no instance.
Plain(v) == v.k \in {"none", "int", "str", "list"} \/ (v.k = "dict" /\ MaxIdOf(v) = 0)

\* A legal instance: every registered field holds null, only if the field
\* has a default, or a legal instance of the registered type (a subclass
\* counts, as for isinstance); every other field holds a plain value.
RECURSIVE Legal(_)
Legal(x) ==
    /\ x.k = "inst"
    /\ \A f \in FieldNamesOf(x.cls) :
         /\ f \in Keys(x.attrs)
         /\ LET v == Get(x.attrs, f)
            IN  IF f \in Registered(x.cls)
                THEN \/ v.k = "none" /\ FieldInfo(x.cls, f).hasdef
                     \/ IsA(v, subconfigs[x.cls][f]) /\ Legal(v)
                ELSE Plain(v)

\* The same, every nested instance being of exactly the registered type.
RECURSIVE LegalExact(_)
LegalExact(x) ==
    /\ x.k = "inst"
    /\ \A f \in FieldNamesOf(x.cls) :
         /\ f \in Keys(x.attrs)
         /\ LET v == Get(x.attrs, f)
            IN  IF f \in Registered(x.cls)
                THEN \/ v.k = "none" /\ FieldInfo(x.cls, f).hasdef
                     \/ IsExactly(v, subconfigs[x.cls][f]) /\ LegalExact(v)
                ELSE Plain(v)

\* A raw mapping from which schema c can be constructed: every required
\* field is present and every entry of a registered field is null (field
\* with a default), a constructible sub-mapping, or an instance of the
\* registered type.
RECURSIVE ValidMapping(_, _)
EntryValid(c, key, v) ==
    key \in Registered(c) =>
        \/ v.k = "none" /\ FieldInfo(c, key).hasdef
        \/ v.k = "dict" /\ ValidMapping(subconfigs[c][key], v.items)
        \/ IsA(v, subconfigs[c][key])

ValidMapping(c, items) ==
    /\ Required(c) \subseteq Keys(items)
    /\ \A i \in 1..Len(items) : EntryValid(c, items[i].key, items[i].val)

\* Every instance held anywhere inside v.
RECURSIVE InstancesIn(_)
InstancesIn(v) ==
    IF v.k = "inst"
    THEN {v} \cup UNION {InstancesIn(v.attrs[i].val) : i \in 1..Len(v.attrs)}
    ELSE IF v.k = "dict"
         THEN UNION {InstancesIn(v.items[i].val) : i \in 1..Len(v.items)}
         ELSE {}

\* The instances the last call built: those of its result it was not given.
Produced ==
    IF last.res.ok
    THEN InstancesIn(last.res.val) \ (InstancesIn(last.arg) \cup InstancesIn(last.kw))
    ELSE {}

\* The last call is T.from_dict(x.to_dict()) for the x of the call before.
RoundTripCase ==
    /\ last.op = "from_dict"
    /\ prev.op = "to_dict"
    /\ last.arg = prev.res.val
    /\ last.cls = prev.arg.cls

\* C1 (as stated): for every legal instance x of schema T, a nested field
\* holding null or any instance of its registered type, T.from_dict(
\* x.to_dict()) succeeds and is structurally equal to x.
C1_RoundTrip ==
    (RoundTripCase /\ Legal(prev.arg))
        => (last.res.ok /\ Eq(last.res.val, prev.arg))

\* C1 (amended): for every legal instance x of schema T whose nested
\* instances are, at every level, of exactly the registered type,
\* T.from_dict(x.to_dict()) succeeds and is structurally equal to x.
C1_RoundTripExact ==
    (RoundTripCase /\ LegalExact(prev.arg))
        => (last.res.ok /\ Eq(last.res.val, prev.arg))

\* A two-level instance with a nested record went through the round trip
\* and a new, equal instance came back.
C1_Witness ==
    /\ RoundTripCase
    /\ LegalExact(prev.arg)
    /\ prev.arg.cls = "OptionalConfig"
    /\ Get(prev.arg.attrs, "optional_nested").k = "inst"
    /\ last.res.ok
    /\ last.res.val # prev.arg

\* Apart from its entry for f, the mapping is one c can be built from.
OthersValid(c, items, f) ==
    /\ (Required(c) \ {f}) \subseteq Keys(items)
    /\ \A i \in 1..Len(items) :
         items[i].key # f => EntryValid(c, items[i].key, items[i].val)

\* What a null for the registered field f of c must lead to.
NullOutcome(c, f) ==
    IF FieldInfo(c, f).hasdef
    THEN last.res.ok /\ Get(last.res.val.attrs, f) = None
    ELSE /\ ~last.res.ok
         /\ last.res.exc = "ValueError"
         /\ last.res.msg = <<"Required subconfig", f, "cannot be None">>

RECURSIVE Restrict(_, _)
Restrict(c, items) ==
    LET kept == SelectSeq(items, LAMBDA it : it.key \in FieldNamesOf(c))
    IN  [i \in 1..Len(kept) |->
            IF kept[i].key \in Registered(c) /\ kept[i].val.k = "dict"
            THEN Item(kept[i].key,
                      DictV(Restrict(subconfigs[c][kept[i].key], kept[i].val.items)))
            ELSE kept[i]]

\* C3: from_dict(m) ends as from_dict(m restricted to the declared field
\* names, at every nesting level) does: both fail with the same error or
\* both succeed with structurally equal results, and no instance built
\* holds an attribute that is not a declared field.
C3_ExtraKeysIgnored ==
    last.op = "from_dict" =>
        LET r == FromDict(last.cls, Restrict(last.cls, last.arg.items),
                          1 + MaxIdOf(last.arg))
        IN  /\ r.ok = last.res.ok
            /\ r.ok => Eq(r.val, last.res.val)
            /\ ~r.ok => (r.exc = last.res.exc /\ r.msg = last.res.msg)
            /\ \A x \in Produced : Keys(x.attrs) \subseteq FieldNamesOf(x.cls)

\* A mapping with an undeclared key at the top and in a sub-mapping was
\* accepted.
C3_Witness ==
    /\ last.op = "from_dict"
    /\ last.res.ok
    /\ ExtraKey \in Keys(last.arg.items)
    /\ \E i \in 1..Len(last.arg.items) :
         /\ last.arg.items[i].key \in Registered(last.cls)
         /\ last.arg.items[i].val.k = "dict"
         /\ ExtraKey \in Keys(last.arg.items[i].val.items)

\* An override value legal for its field: for a registered field null
\* (field with a default), a constructible full mapping or an instance of
\* the registered type.
LegalOverrides(c, items) ==
    \A i \in 1..Len(items) : EntryValid(c, items[i].key, items[i].val)

\* Field f of the result holds the override value v: the instance built
\* from v alone when v is a mapping for a registered field, else v itself.
OverrideHolds(c, f, v, rv) ==
    IF f \in Registered(c) /\ v.k = "dict"
    THEN /\ IsExactly(rv, subconfigs[c][f])
         /\ rv \in Produced
         /\ Eq(rv, FromDict(subconfigs[c][f], v.items, 1).val)
    ELSE rv = v

\* inherit gives the overridden fields their override values and leaves
\* every other field structurally equal to the parent's.
InheritOutcome ==
    /\ last.res.ok
    /\ IsExactly(last.res.val, last.cls)
    /\ \A f \in FieldNamesOf(last.cls) :
         IF f \in Keys(last.kw.items)
         THEN OverrideHolds(last.cls, f, Get(last.kw.items, f),
                            Get(last.res.val.attrs, f))
         ELSE Eq(Get(last.res.val.attrs, f), Get(last.arg.attrs, f))

\* C4 (as stated): for every legal parent p of schema T, a nested field
\* holding null or any instance of its registered type, and overrides o
\* legal for their fields, T.inherit(p, **o) has every field named in o
\* equal to the (constructed) override value, built from the override
\* alone, and every other field structurally equal to p's.
C4_InheritOverrides ==
    (/\ last.op = "inherit"
     /\ Legal(last.arg)
     /\ LegalOverrides(last.cls, last.kw.items))
        => InheritOutcome

\* C4 (amended): the same for every legal parent whose nested instances
\* are, at every level, of exactly the registered type.
C4_InheritOverridesExact ==
    (/\ last.op = "inherit"
     /\ LegalExact(last.arg)
     /\ LegalOverrides(last.cls, last.kw.items))
        => InheritOutcome

\* A parent holding a nested record was given a full mapping for that
\* nested field and a scalar override, and the nested record was replaced.
C4_Witness ==
    /\ last.op = "inherit"
    /\ LegalExact(last.arg)
    /\ LegalOverrides(last.cls, last.kw.items)
    /\ last.cls = "OptionalConfig"
    /\ Get(last.arg.attrs, "optional_nested").k = "inst"
    /\ Keys(last.kw.items) = {"required", "optional_nested"}
    /\ Get(last.kw.items, "optional_nested").k = "dict"
    /\ Get(last.kw.items, "required") # Get(last.arg.attrs, "required")
    /\ ~Eq(Get(last.res.val.attrs, "optional_nested"),
           Get(last.arg.attrs, "optional_nested"))

\* C5 (as stated): the key set of x.to_dict() is exactly the declared
\* field set of x's schema type, however x was created.
C5_FlattenKeySet ==
    last.op = "to_dict" =>
        Keys(last.res.val.items) = FieldNamesOf(last.arg.cls)

\* The entry of a registered field is neither null, nor a mapping, nor an
\* instance of the registered type.
WrongType(c, key, v) ==
    /\ key \in Registered(c)
    /\ v.k \notin {"none", "dict"}
    /\ ~IsA(v, subconfigs[c][key])

\* C8: from_dict raises, returning no instance, whenever the mapping
\* gives a registered field a value that is neither null, nor a mapping,
\* nor an instance of the registered type; a value given for a field that
\* is not registered is on the result unchanged, and a value is refused
\* only when the entry of some registered field is invalid.
C8_InvalidNestedTypeRaises ==
    last.op = "from_dict" =>
        LET m == last.arg.items
        IN  /\ (\E i \in 1..Len(m) : WrongType(last.cls, m[i].key, m[i].val))
                  => ~last.res.ok
            /\ last.res.ok =>
                 \A i \in 1..Len(m) :
                    m[i].key \in FieldNamesOf(last.cls) \ Registered(last.cls)
                       => Get(last.res.val.attrs, m[i].key) = m[i].val
            /\ (~last.res.ok /\ last.res.exc = "ValueError")
                  => \E i \in 1..Len(m) :
                        /\ m[i].key \in Registered(last.cls)
                        /\ ~EntryValid(last.cls, m[i].key, m[i].val)

\* An instance of another schema was given for a nested field and refused.
C8_Witness ==
    /\ last.op = "from_dict"
    /\ ~last.res.ok
    /\ \E i \in 1..Len(last.arg.items) :
         /\ WrongType(last.cls, last.arg.items[i].key, last.arg.items[i].val)
         /\ last.arg.items[i].val.k = "inst"
         /\ \A j \in 1..Len(last.arg.items) :
              j # i => EntryValid(last.cls, last.arg.items[j].key,
                                  last.arg.items[j].val)

\* The first entry of the mapping, in its order, that from_dict cannot
\* accept for a registered field of c (0 when there is none).
FirstOffence(c, items) ==
    LET bad == {i \in 1..Len(items) :
                   ~EntryValid(c, items[i].key, items[i].val)}
    IN  IF bad = {} THEN 0 ELSE Min(bad)

\* The last call is a from_dict whose first unacceptable entry is a null
\* for a required nested field / a wrongly typed value.
NullFailure ==
    /\ last.op = "from_dict"
    /\ FirstOffence(last.cls, last.arg.items) # 0
    /\ last.arg.items[FirstOffence(last.cls, last.arg.items)].val.k = "none"

TypeFailure ==
    /\ last.op = "from_dict"
    /\ FirstOffence(last.cls, last.arg.items) # 0
    /\ last.arg.items[FirstOffence(last.cls, last.arg.items)].val.k
          \notin {"none", "dict"}

Offender == last.arg.items[FirstOffence(last.cls, last.arg.items)]

\* The shape of a value: its class for an instance, else its kind.
ShapeOf(v) == IF v.k = "inst" THEN v.cls ELSE v.k

\* C9 (as stated): a null for a required nested field fails with an
\* error identifying the field; a wrongly typed nested value fails with
\* an error of a distinct kind identifying the field and the shape of the
\* value received.
C9_DistinctDescribedErrors ==
    /\ NullFailure =>
         (~last.res.ok /\ Offender.key \in Range(last.res.msg))
    /\ TypeFailure =>
         /\ ~last.res.ok
         /\ last.res.exc # RequiredNullError(Offender.key).exc
         /\ Offender.key \in Range(last.res.msg)
         /\ ShapeOf(Offender.val) \in Range(last.res.msg)

\* C9 (amended): both failures are ValueError; a null for a required
\* nested field f fails with "Required subconfig 'f' cannot be None", a
\* wrongly typed nested value with "Invalid type for f", which names the
\* field only; the two are told apart by their messages.
C9_ErrorsToldApartByMessage ==
    /\ NullFailure =>
         /\ ~last.res.ok
         /\ last.res.exc = "ValueError"
         /\ last.res.msg = <<"Required subconfig", Offender.key, "cannot be None">>
    /\ TypeFailure =>
         /\ ~last.res.ok
         /\ last.res.exc = "ValueError"
         /\ last.res.msg = <<"Invalid type for", Offender.key>>

\* An instance of another schema, given for a nested field, was refused.
C9_Witness ==
    /\ TypeFailure
    /\ Offender.val.k = "inst"
    /\ ~last.res.ok
    /\ Len(last.res.msg) = 2

\* C10: when the mapping, valid otherwise, gives a registered field f an
\* instance n of the registered type, from_dict succeeds, and whenever it
\* succeeds its field f is n itself, not a re-constructed copy.
C10_NestedPassThrough ==
    last.op = "from_dict" =>
        \A i \in 1..Len(last.arg.items) :
            LET f == last.arg.items[i].key
                n == last.arg.items[i].val
            IN  (f \in Registered(last.cls) /\ IsA(n, subconfigs[last.cls][f]))
                   => /\ ValidMapping(last.cls, last.arg.items) => last.res.ok
                      /\ last.res.ok =>
                           /\ Get(last.res.val.attrs, f) = n
                           /\ n \notin Produced

\* from_dict was given an instance of a subclass of the registered type
\* and kept it.
C10_Witness ==
    /\ last.op = "from_dict"
    /\ last.res.ok
    /\ \E i \in 1..Len(last.arg.items) :
         /\ last.arg.items[i].key \in Registered(last.cls)
         /\ IsA(last.arg.items[i].val, subconfigs[last.cls][last.arg.items[i].key])
         /\ ~IsExactly(last.arg.items[i].val,
                       subconfigs[last.cls][last.arg.items[i].key])

\* A raw mapping whose key set is exactly the declared field set of c,
\* whose registered fields hold such a mapping of the nested schema, or
\* null when the field has a default, and whose other fields hold plain
\* values.
RECURSIVE ExactMapping(_, _)
ExactMapping(c, items) ==
    /\ Keys(items) = FieldNamesOf(c)
    /\ Len(items) = Cardinality(FieldNamesOf(c))
    /\ \A i \in 1..Len(items) :
         IF items[i].key \in Registered(c)
         THEN \/ items[i].val.k = "none" /\ FieldInfo(c, items[i].key).hasdef
              \/ /\ items[i].val.k = "dict"
                 /\ ExactMapping(subconfigs[c][items[i].key], items[i].val.items)
         ELSE Plain(items[i].val)

\* The last call is T.from_dict(d).to_dict() for the d of the call before.
MappingTripCase ==
    /\ last.op = "to_dict"
    /\ prev.op = "from_dict"
    /\ prev.res.ok
    /\ last.arg = prev.res.val

\* C11: for every schema T and raw mapping d whose key set is, at every
\* nesting level, exactly the declared field set and whose nested-field
\* values are raw mappings, or null for optional nested fields,
\* T.from_dict(d) succeeds and T.from_dict(d).to_dict() equals d (as
\* mappings: the order of the keys does not count).
C11_MappingRoundTrip ==
    /\ (last.op = "from_dict" /\ ExactMapping(last.cls, last.arg.items))
          => last.res.ok
    /\ (MappingTripCase /\ ExactMapping(prev.cls, prev.arg.items))
          => (last.res.ok /\ Eq(last.res.val, prev.arg))

\* A mapping with a nested sub-mapping, its keys in another order than the
\* fields, went through from_dict and to_dict and came back equal.
C11_Witness ==
    /\ MappingTripCase
    /\ ExactMapping(prev.cls, prev.arg.items)
    /\ \E i \in 1..Len(prev.arg.items) :
         /\ prev.arg.items[i].key \in Registered(prev.cls)
         /\ prev.arg.items[i].val.k = "dict"
    /\ last.res.val.items # prev.arg.items
    /\ Eq(last.res.val, prev.arg)

\* ------------------------------------------------- registry claims ----

\* What a class body says about field f of class c, read off the class
\* statements alone: the most derived annotation of f, and the schema type
\* it denotes (itself, or the first schema alternative of a union).
Annotated(c) == {a.name : a \in Range(AllAnnotations(classes, c))}

DeclaredType(c, f) ==
    LET s == AllAnnotations(classes, c)
    IN  s[Max({i \in 1..Len(s) : s[i].name = f})].type

DenotedSchema(ft) ==
    IF ft.t \in {"cls", "fwd"} THEN ft.c
    ELSE IF ft.t = "union"
         THEN LET hit == {i \in 1..Len(ft.args) : ft.args[i].t \in {"cls", "fwd"}}
              IN  IF hit = {} THEN NoClass ELSE ft.args[Min(hit)].c
         ELSE NoClass

\* The fields of c whose declared type denotes a schema type.
NestedFields(c) == {f \in Annotated(c) : DenotedSchema(DeclaredType(c, f)) # NoClass}

\* Every annotation c has or inherits can be evaluated.
Evaluates(c) ==
    \A a \in Range(AllAnnotations(classes, c)) :
        /\ a.type.t # "fwdbad"
        /\ \A arg \in Range(a.type.args) : arg.t # "fwdbad"

OwnHand(c) == IF classes[c].hand.has THEN classes[c].hand.map ELSE EmptyMap
OwnAnnotated(c) == {a.name : a \in Range(classes[c].ann)}

\* C6 (as stated): every field of a declared schema whose declared type is a
\* schema type, or a union with a schema alternative (the first one), is
\* mapped to it, the automatic pass maps no other field, and a subclass's
\* map contains every entry of its parent's map, entries declared by hand
\* included, the subclass's own resolution winning on a shared field.
C6_RegistrationClosure ==
    \A c \in DOMAIN classes :
        /\ \A f \in NestedFields(c) :
              /\ f \in DOMAIN subconfigs[c]
              /\ subconfigs[c][f] = DenotedSchema(DeclaredType(c, f))
        /\ \A f \in (DOMAIN subconfigs[c]) \ NestedFields(c) :
              f \in DOMAIN OwnHand(c) \cup DOMAIN subconfigs[classes[c].base]
        /\ \A f \in DOMAIN subconfigs[classes[c].base] :
              /\ f \in DOMAIN subconfigs[c]
              /\ f \notin OwnAnnotated(c) \cup DOMAIN OwnHand(c)
                    => subconfigs[c][f] = subconfigs[classes[c].base][f]

\* C6 (amended): when every annotation a schema has or inherits evaluates,
\* each field whose declared type denotes a schema type is mapped to it;
\* every entry of the map is such a field or an entry the class itself
\* declared by hand; when an annotation raises TypeError the map is only
\* what the class declared by hand.  A subclass does not start from its
\* parent's map: it keeps the parent's automatic entries for the fields it
\* does not annotate again, and not the parent's hand-declared ones.
C6_RegistrationClosureAmended ==
    \A c \in DOMAIN classes :
        /\ Evaluates(c) =>
              \A f \in NestedFields(c) :
                  /\ f \in DOMAIN subconfigs[c]
                  /\ subconfigs[c][f] = DenotedSchema(DeclaredType(c, f))
        /\ \A f \in DOMAIN subconfigs[c] :
              \/ /\ Evaluates(c)
                 /\ f \in NestedFields(c)
              \/ /\ f \in DOMAIN OwnHand(c)
                 /\ subconfigs[c][f] = OwnHand(c)[f]
        /\ ~Evaluates(c) => subconfigs[c] = OwnHand(c)
        /\ (Evaluates(c) /\ classes[c].base # BaseConfig) =>
              \A f \in NestedFields(classes[c].base) \ OwnAnnotated(c) :
                  /\ f \in DOMAIN subconfigs[c]
                  /\ subconfigs[c][f] = subconfigs[classes[c].base][f]

\* A subclass whose parent registered one field automatically and another
\* by hand only: the subclass kept the first entry and not the second, and
\* a union field of its own is mapped to the first schema alternative.
C6_Witness ==
    \E d \in DOMAIN classes :
        LET c == classes[d].base
        IN  /\ c # BaseConfig
            /\ Evaluates(d)
            /\ "f" \in NestedFields(c) \ OwnAnnotated(d)
            /\ "g" \in (DOMAIN subconfigs[c]) \ NestedFields(c)
            /\ "g" \in OwnAnnotated(d)
            /\ DeclaredType(d, "g").t = "union"
            /\ Len(DeclaredType(d, "g").args) = 3
            /\ subconfigs[d]["g"] = DeclaredType(d, "g").args[2].c
            /\ subconfigs[d]["f"] = subconfigs[c]["f"]

\* C12: once a schema type is declared, no step changes its subconfigs:
\* neither the declaration of further schema types, subclasses of it
\* included, nor from_dict, to_dict, inherit or from_yaml on any schema.
C12_RegistryWriteOnce ==
    [][\A c \in DOMAIN subconfigs :
          /\ c \in DOMAIN subconfigs'
          /\ subconfigs'[c] = subconfigs[c]]_vars

\* Every schema of the program is declared, subclasses of BaseConfig and
\* of ExampleDataConfig among them, inherit has built an instance with a
\* nested record, and the maps are the ones set at declaration.
C12_Witness ==
    /\ last.op = "inherit"
    /\ last.res.ok
    /\ \E x \in Produced : x # last.res.val
    /\ DOMAIN classes = {Program[i].name : i \in 1..Len(Program)}
    /\ classes["TaggedDataConfig"].base = "ExampleDataConfig"
    /\ subconfigs[BaseConfig] = EmptyMap
    /\ subconfigs["ExampleDataConfig"] = EmptyMap
    /\ subconfigs["ExampleExperimentConfig"] = ("data" :> "ExampleDataConfig")
    /\ subconfigs["OptionalConfig"] = ("optional_nested" :> "ExampleExperimentConfig")

\* C7 (as stated): the registration hook never raises, whatever the class
\* body annotates, and the schema type is defined.
C7_RegistrationNeverRaises ==
    last.op = "declare" => (last.res.ok /\ last.cls \in DOMAIN classes)

====
